---- MODULE Spec2Model ----
(***************************************************************************)
(* Model of DOIcorrection.py: the DOI issuance workflow                    *)
(*   dois_required_check -> createXML -> createDataciteDOI                 *)
(* with its helpers getDOIstring, encode_xml_to_base64 and get_short_doi.  *)
(*                                                                         *)
(* Every Python call is modelled by its outcome, a record                  *)
(*   [kind |-> "return", val |-> v]  or  [kind |-> "raise", val |-> exc]   *)
(* The relational store, the file system and the two HTTP services are     *)
(* the environment: their answers are inputs drawn with \E.                *)
(***************************************************************************)
EXTENDS Integers, Sequences, FiniteSets, TLC

VARIABLES
    PUBLICATION,   \* rows of [dbo].[PUBLICATION]
    DATASET,       \* rows of [dbo].[DATASET]
    pubIDs,        \* the module-level accumulator list
    files,         \* the files of the destination folder: name -> content
    executed,      \* statements executed on the store connection, in order
    http,          \* HTTP requests issued, in order
    aliasAnswer,   \* what the alias service answers to a direct get_short_doi call
    last           \* the last call: operation, arguments, environment, outcome

vars == <<PUBLICATION, DATASET, pubIDs, files, executed, http, aliasAnswer, last>>

----------------------------------------------------------------------------
(* Bounds of the model *)

MaxDatasets == 2      \* number of DATASET rows of the scanned store
MaxPubIDs == 4        \* cap on the length of the accumulator
MaxBody == 5          \* cap on the length of an alias-service body
MaxLog == 4           \* cap on the length of the statement and request logs

(* Program constant: the record id the scanner's query always skips *)
ExcludedId == 12551

RecordIds == {1, 2, ExcludedId}
DatasetKeys == 1..MaxDatasets

----------------------------------------------------------------------------
(* Python values and call outcomes *)

PyNone == [t |-> "None"]
PyStr(s) == [t |-> "str", v |-> s]
PyInt(n) == [t |-> "int", v |-> n]
PyList(s) == [t |-> "list", v |-> s]
PyTuple(s) == [t |-> "tuple", v |-> s]

Return(v) == [kind |-> "return", val |-> v]
Raise(e) == [kind |-> "raise", val |-> e]

Range(s) == {s[i] : i \in DOMAIN s}

Perms(S) == {s \in [1..Cardinality(S) -> S] : Range(s) = S}

----------------------------------------------------------------------------
(* The store *)

NullDate == "NULL"
OldDate == "2023-10-24"
Today == "today"

PubRow(id, published, issued) ==
    [ID |-> id, PUBLISHED |-> published,
     DOI_PUBLICATION_DATE |-> IF issued THEN OldDate ELSE NullDate,
     doi |-> IF issued THEN "10.20393/old" ELSE "NULL",
     shortDOI |-> IF issued THEN "10/old" ELSE "NULL"]

PubRows == {PubRow(id, p, i) : id \in RecordIds, p \in {0, 1}, i \in BOOLEAN}

\* ID is the primary key of PUBLICATION
PubTables == {T \in SUBSET PubRows : \A r, s \in T : r.ID = s.ID => r = s}

DsRow(k, fk) == [ID |-> k, PUBLICATION_ID |-> fk, uuid |-> "uuid-old"]

DsTables == {{DsRow(k, f[k]) : k \in DatasetKeys} : f \in [DatasetKeys -> RecordIds]}

----------------------------------------------------------------------------
(* 1. dois_required_check *)

\* FROM PUBLICATION pub RIGHT JOIN DATASET ds ON ds.PUBLICATION_ID = pub.ID:
\* every DATASET row, with its PUBLICATION row or with NULLs.
RightJoin(pub, ds) ==
    {[matched |-> TRUE, pub |-> p, ds |-> d] :
        <<p, d>> \in {x \in pub \X ds : x[2].PUBLICATION_ID = x[1].ID}}
    \cup
    {[matched |-> FALSE, pub |-> PubRow(d.PUBLICATION_ID, 0, FALSE), ds |-> d] :
        d \in {x \in ds : \A p \in pub : x.PUBLICATION_ID # p.ID}}

\* the WHERE clause without its last condition, pub.ID != 12551
WhereNoExclusion(row) ==
    /\ row.matched
    /\ row.pub.PUBLISHED = 1
    /\ row.pub.DOI_PUBLICATION_DATE = NullDate

\* WHERE pub.PUBLISHED = 1 AND pub.DOI_PUBLICATION_DATE is null AND pub.ID != 12551
\* (a comparison with the NULLs of an unmatched row is not true)
Where(row) ==
    /\ row.matched
    /\ row.pub.PUBLISHED = 1
    /\ row.pub.DOI_PUBLICATION_DATE = NullDate
    /\ row.pub.ID # ExcludedId

\* the rows of the query's result, one per joined DATASET row
query_string(pub, ds) == {r \in RightJoin(pub, ds) : Where(r)}

\* pd.read_sql_query: raises, or returns the rows in the store's natural order
read_sql_query(pub, ds) ==
    {Raise("Exception")} \cup {Return(df) : df \in Perms(query_string(pub, ds))}

\* a variant whose failure path empties the accumulator
dois_required_check_reset(acc, df) ==
    IF df.kind = "raise"
    THEN [pubIDs |-> <<>>, outcome |-> Return(PyNone)]
    ELSE [pubIDs |-> acc \o [i \in 1..Len(df.val) |-> df.val[i].pub.ID],
          outcome |-> Return(PyNone)]

\* the body of dois_required_check, given the accumulator and the query's outcome
dois_required_check(acc, df) ==
    IF df.kind = "raise"
    THEN [pubIDs |-> acc, outcome |-> Return(PyNone)]
    ELSE [pubIDs |-> acc \o [i \in 1..Len(df.val) |-> df.val[i].pub.ID],
          outcome |-> Return(PyNone)]

DoisRequiredCheck ==
    \E df \in read_sql_query(PUBLICATION, DATASET) :
        LET r == dois_required_check(pubIDs, df)
        IN  /\ Len(r.pubIDs) <= MaxPubIDs
            /\ pubIDs' = r.pubIDs
            /\ last' = [op |-> "dois_required_check",
                        queryFailed |-> (df.kind = "raise"),
                        appended |-> SubSeq(r.pubIDs, Len(pubIDs) + 1, Len(r.pubIDs)),
                        outcome |-> r.outcome]
            /\ UNCHANGED <<PUBLICATION, DATASET, files, executed, http, aliasAnswer>>

----------------------------------------------------------------------------
(* Strings and the destination folder *)

RECURSIVE Digits(_)
\* '%s' % n for a non-negative integer n: its decimal digits
Digits(n) ==
    LET d == <<"0", "1", "2", "3", "4", "5", "6", "7", "8", "9">>
    IN  IF n < 10 THEN <<d[n + 1]>> ELSE Digits(n \div 10) \o <<d[(n % 10) + 1]>>

\* '%s' % pubID
Format(pubID) == IF pubID.t = "int" THEN Digits(pubID.v) ELSE pubID.v

destination_folder == "dataciteXML"

\* os.path.join(os.path.normpath(destination_folder), 'DC%s.xml' % pubID)
xml_file_path(folder, pubID) == <<folder, "DC">> \o Format(pubID) \o <<".xml">>

\* the record identifiers a caller passes: the scanner's integers, decimal
\* strings, and the empty list
PubIDArgs ==
    {PyInt(id) : id \in RecordIds} \cup {PyStr(Digits(id)) : id \in {1, 2}}
    \cup {PyList(<<>>)}

FileExists(fs, path) == path \in DOMAIN fs

----------------------------------------------------------------------------
(* 2. createXML *)

\* how far the store, the parser and the file system let one call get
XmlEnvs == {"query_fails", "xml_null", "xml_malformed", "open_fails", "write_fails", "ok"}

\* the document written: the parsed XML with the three namespace attributes
DataCiteXML(pubID) ==
    <<"resource", Format(pubID), "xmlns:xsi", "xmlns", "xsi:schemaLocation">>

createXML(fs, pubID, folder, env) ==
    IF pubID.t = "int"
    THEN \* len(pubID) on an integer, outside the try
         [files |-> fs, outcome |-> Raise("TypeError")]
    ELSE IF Len(pubID.v) <= 0
    THEN [files |-> fs, outcome |-> Return(PyNone)]
    ELSE LET path == xml_file_path(folder, pubID)
         IN  CASE env \in {"query_fails", "xml_null", "xml_malformed", "open_fails"} ->
                    \* connection.execute, ET.fromstring or open() raised: caught
                    [files |-> fs, outcome |-> Return(PyNone)]
               [] env = "write_fails" ->
                    \* tree.write opened (created or truncated) the file, then failed: caught
                    [files |-> (path :> <<>>) @@ fs, outcome |-> Return(PyNone)]
               [] OTHER ->
                    [files |-> (path :> DataCiteXML(pubID)) @@ fs,
                     outcome |-> Return(PyNone)]

CreateXML ==
    \E pubID \in PubIDArgs, env \in XmlEnvs :
        LET r == createXML(files, pubID, destination_folder, env)
        IN  /\ files' = r.files
            /\ last' = [op |-> "createXML", pubID |-> pubID, env |-> env,
                        created |-> DOMAIN r.files \ DOMAIN files,
                        outcome |-> r.outcome]
            /\ UNCHANGED <<PUBLICATION, DATASET, pubIDs, executed, http, aliasAnswer>>

----------------------------------------------------------------------------
(* 3.1 getDOIstring, 3.2 encode_xml_to_base64 *)

UUIDs == {"uuid-a", "uuid-b"}

\* f'10.20393/{myUUID}', myUUID the value uuid.uuid4() drew
getDOIstring(myUUID) == <<"10.20393/", myUUID>>

\* base64.b64encode(xml_content).decode('utf-8')
b64encode(xml_content) == <<"base64">> \o xml_content

encode_xml_to_base64(fs, folder, pubID) ==
    LET path == xml_file_path(folder, pubID)
    IN  IF FileExists(fs, path)
        THEN Return(PyStr(b64encode(fs[path])))
        ELSE Return(PyNone)

\* a call of encode_xml_to_base64 with the positional arguments args:
\* Python raises TypeError unless both parameters are bound
call_encode_xml_to_base64(fs, args) ==
    IF Len(args) # 2
    THEN Raise("TypeError")
    ELSE encode_xml_to_base64(fs, args[1], args[2])

----------------------------------------------------------------------------
(* 3.3 get_short_doi *)

\* A response body is a sequence of tokens: the two delimiters the function
\* looks for, the alias prefix, a whitespace character and another character.
DivPara == "<div class=\"para\">"
DivEnd == "</div>"
Tokens == {DivPara, "10/", DivEnd, " ", "x"}

Bodies == UNION {[1..n -> Tokens] : n \in 0..MaxBody}

RECURSIVE strip(_)
\* str.strip(): without its leading and trailing whitespace
strip(s) ==
    IF s = <<>> THEN s
    ELSE IF Head(s) = " " THEN strip(Tail(s))
    ELSE IF s[Len(s)] = " " THEN strip(SubSeq(s, 1, Len(s) - 1))
    ELSE s

\* str.find(pat, start), 0-based, -1 when absent. A negative start searches
\* from the last character, where neither delimiter can begin.
find(s, pat, start) ==
    LET hits == {i \in 0..(Len(s) - Len(pat)) :
                    i >= start /\ SubSeq(s, i + 1, i + Len(pat)) = pat}
    IN  IF start < 0 \/ hits = {} THEN -1
        ELSE CHOOSE i \in hits : \A j \in hits : i <= j

\* a variant that slices from start_index, without + len('<div class="para">')
get_short_doi_keepTag(response) ==
    IF response.kind = "raise" THEN response
    ELSE IF response.val.status_code = 200
    THEN LET short_doi == strip(response.val.text)
             start_index == find(short_doi, <<DivPara, "10/">>, 0)
             end_index == find(short_doi, <<DivEnd>>, start_index)
         IN  IF start_index # -1 /\ end_index # -1
             THEN Return(PyStr(strip(SubSeq(short_doi, start_index + 1, end_index))))
             ELSE Return(PyNone)
    ELSE Return(PyTuple(<<response.val.status_code, response.val.text>>))

\* the body of get_short_doi, given the outcome of requests.get
get_short_doi(response) ==
    IF response.kind = "raise" THEN response
    ELSE IF response.val.status_code = 200
    THEN LET short_doi == strip(response.val.text)
             start_index == find(short_doi, <<DivPara, "10/">>, 0)
             end_index == find(short_doi, <<DivEnd>>, start_index)
         IN  IF start_index # -1 /\ end_index # -1
             THEN Return(PyStr(strip(
                     SubSeq(short_doi, start_index + Len(<<DivPara>>) + 1, end_index))))
             ELSE Return(PyNone)
    ELSE Return(PyTuple(<<response.val.status_code, response.val.text>>))

Response(status, text) == Return([status_code |-> status, text |-> text])

\* what requests.get can give: a transport error or a response
GetOutcomes ==
    {Raise("ConnectionError")}
    \cup {Response(st, b) : st \in {200, 404}, b \in Bodies}

GetRequest(doi) == [method |-> "GET", url |-> <<"http://shortdoi.org/">> \o doi]

GetShortDoi ==
    \E myUUID \in UUIDs :
        LET doi == getDOIstring(myUUID)
        IN  /\ Len(http) < MaxLog
            /\ http' = Append(http, GetRequest(doi))
            /\ last' = [op |-> "get_short_doi", doi |-> doi, response |-> aliasAnswer,
                        outcome |-> get_short_doi(aliasAnswer)]
            /\ UNCHANGED <<PUBLICATION, DATASET, pubIDs, files, executed, aliasAnswer>>

----------------------------------------------------------------------------
(* 3. createDataciteDOI *)

\* the alias service's answers to the orchestrator's lookup
AliasAnswers ==
    {Raise("ConnectionError"),
     Response(200, <<"x", DivPara, "10/", "x", DivEnd>>),
     Response(200, <<"x">>),
     Response(404, <<"x">>)}

\* one call's environment: the UUID drawn, the registration service's status
\* and the alias service's answer
DoiEnvs == [myUUID : UUIDs, status_code : {201, 400}, alias : AliasAnswers]

PostRequest(pubID, doi, encodedXML, status) ==
    [method |-> "POST", url |-> <<"https://api.datacite.org/dois">>,
     pubID |-> pubID, doi |-> doi, xml |-> encodedXML, status_code |-> status]

\* connection.execute(statement, **params)
Statement(name, params) == [statement |-> name, params |-> params]

\* UPDATE [dbo].[PUBLICATION] SET doi, DOI_PUBLICATION_DATE, shortDOI WHERE id = :target_id
\* (target is the decimal text the bound id is compared as)
UpdatePublication(pub, doi, day, shortDOI, target) ==
    {IF Digits(r.ID) = target
     THEN [r EXCEPT !.doi = doi, !.DOI_PUBLICATION_DATE = day, !.shortDOI = shortDOI]
     ELSE r : r \in pub}

\* the three strings createDataciteDOI returns, by their text and what they name
SummaryString == PyStr([text |-> "Publication Table Rows affected, Dataset Table rows affected"])
ErrorString == PyStr([text |-> "An error occurred"])
FailureString(pubID, status) ==
    PyStr([text |-> "DOI creation failed", pubID |-> Format(pubID), status_code |-> status])

\* a variant that persists before looking at the response status, with the
\* encoder called on (folder, pubID) and the parameters bound
createDataciteDOI_persistFirst(fs, pub, ds, folder, pubID, env) ==
    LET doi == getDOIstring(env.myUUID)
        encodedXML == encode_xml_to_base64(fs, folder, pubID)
    IN  [outcome |-> Return(SummaryString),
         http |-> <<PostRequest(pubID, doi, encodedXML.val, env.status_code)>>,
         executed |-> <<Statement("update_publication",
                            <<doi, Today, "10/x", Format(pubID)>>)>>,
         PUBLICATION |-> UpdatePublication(pub, doi, Today, "10/x", Format(pubID)),
         DATASET |-> ds]

\* lines 196-238: the registration request and what follows it
register(pub, ds, pubID, doi, encodedXML, env) ==
    LET post == PostRequest(pubID, doi, encodedXML, env.status_code)
    IN  IF env.status_code = 201
        THEN LET doiDC == doi
                 shortDOI == get_short_doi(env.alias)
             IN  IF shortDOI.kind = "raise"
                 THEN \* requests.get raised inside the try
                      [outcome |-> Return(ErrorString),
                       http |-> <<post, GetRequest(doiDC)>>,
                       executed |-> <<>>,
                       PUBLICATION |-> pub, DATASET |-> ds]
                 ELSE \* the first execute binds the literal "%s" to every
                      \* parameter; the % applied to its result raises TypeError,
                      \* which the except clause turns into a string
                      [outcome |-> Return(ErrorString),
                       http |-> <<post, GetRequest(doiDC)>>,
                       executed |-> <<Statement("update_publication",
                                          <<"%s", "%s", "%s", "%s">>)>>,
                       PUBLICATION |-> UpdatePublication(pub, "%s", "%s", "%s", <<"%s">>),
                       DATASET |-> ds]
        ELSE [outcome |-> Return(FailureString(pubID, env.status_code)),
              http |-> <<post>>,
              executed |-> <<>>,
              PUBLICATION |-> pub, DATASET |-> ds]

createDataciteDOI(fs, pub, ds, folder, pubID, env) ==
    LET path == xml_file_path(folder, pubID)
        doi == getDOIstring(env.myUUID)
        \* encode_xml_to_base64(xml_file_path): one argument for two parameters
        encodedXML == call_encode_xml_to_base64(fs, <<path>>)
    IN  IF encodedXML.kind = "raise"
        THEN [outcome |-> encodedXML, http |-> <<>>, executed |-> <<>>,
              PUBLICATION |-> pub, DATASET |-> ds]
        ELSE register(pub, ds, pubID, doi, encodedXML.val, env)

CreateDataciteDOI ==
    \E pubID \in PubIDArgs \ {PyList(<<>>)}, env \in DoiEnvs :
        LET r == createDataciteDOI(files, PUBLICATION, DATASET, destination_folder, pubID, env)
        IN  /\ Len(http) + Len(r.http) <= MaxLog
            /\ Len(executed) + Len(r.executed) <= MaxLog
            /\ http' = http \o r.http
            /\ executed' = executed \o r.executed
            /\ PUBLICATION' = r.PUBLICATION
            /\ DATASET' = r.DATASET
            /\ last' = [op |-> "createDataciteDOI", pubID |-> pubID, env |-> env,
                        fileExisted |-> FileExists(files, xml_file_path(destination_folder, pubID)),
                        before |-> {q \in PUBLICATION : Digits(q.ID) = Format(pubID)},
                        http |-> r.http, executed |-> r.executed,
                        outcome |-> r.outcome]
            /\ UNCHANGED <<pubIDs, files, aliasAnswer>>

NoCall == [op |-> "none"]

InitScan ==
    /\ PUBLICATION \in PubTables
    /\ DATASET \in DsTables
    /\ pubIDs = <<>>
    /\ files = <<>>
    /\ executed = <<>>
    /\ http = <<>>
    /\ aliasAnswer = Raise("ConnectionError")
    /\ last = NoCall

NextScan == DoisRequiredCheck

\* the workflow: any sequence of scanner, exporter and orchestrator calls on a
\* store in which every Record is published and has one DATASET row; Records
\* 1 and 2 are issued or not, the excluded Record is not
Init ==
    /\ PUBLICATION \in {{PubRow(1, 1, i), PubRow(2, 1, j), PubRow(ExcludedId, 1, FALSE)} :
                            i \in BOOLEAN, j \in BOOLEAN}
    /\ DATASET = {DsRow(id, id) : id \in RecordIds}
    /\ pubIDs = <<>>
    /\ files = <<>>
    /\ executed = <<>>
    /\ http = <<>>
    /\ aliasAnswer = Raise("ConnectionError")
    /\ last = NoCall

Next == DoisRequiredCheck \/ CreateXML \/ CreateDataciteDOI

Spec == Init /\ [][Next]_vars

\* direct calls of the alias resolver
InitAlias ==
    /\ PUBLICATION = {}
    /\ DATASET = {}
    /\ pubIDs = <<>>
    /\ files = <<>>
    /\ executed = <<>>
    /\ http = <<>>
    /\ aliasAnswer \in GetOutcomes
    /\ last = NoCall

NextAlias == GetShortDoi

SpecAlias == InitAlias /\ [][NextAlias]_vars

SpecScan == InitScan /\ [][NextScan]_vars

----------------------------------------------------------------------------
(* Claims about the scanner *)

ScanSucceeded == last.op = "dois_required_check" /\ ~last.queryFailed
ScanFailed == last.op = "dois_required_check" /\ last.queryFailed

\* a Record that is published, has no issuance date and is not the excluded id
Eligible(p) ==
    p.PUBLISHED = 1 /\ p.DOI_PUBLICATION_DATE = NullDate /\ p.ID # ExcludedId

Occurrences(s, x) == Cardinality({i \in DOMAIN s : s[i] = x})

\* C5 as stated: after a successful dois_required_check, the ids appended to
\* pubIDs are exactly the ids of the Records that are published, have a null
\* issuance date and are not the excluded id.
C5_AppendedExactlyEligible ==
    ScanSucceeded => Range(last.appended) = {p.ID : p \in {q \in PUBLICATION : Eligible(q)}}

\* C5 amended: after a successful dois_required_check, every id is appended to
\* pubIDs once per DATASET row that references a Record with that id which is
\* published, has a null issuance date and is not the excluded id; a Record
\* that no DATASET row references is not appended.
C5_AppendedPerDatasetRow ==
    ScanSucceeded =>
        \A id \in RecordIds :
            Occurrences(last.appended, id) =
                Cardinality({d \in DATASET :
                    /\ d.PUBLICATION_ID = id
                    /\ \E p \in PUBLICATION : p.ID = id /\ Eligible(p)})

\* C5 witness: a successful scan of a store that holds an eligible Record with
\* a DATASET row, an eligible Record without one, and a Record with a date
C5_Witness ==
    /\ ScanSucceeded
    /\ last.appended # <<>>
    /\ \E p \in PUBLICATION : Eligible(p) /\ p.ID \notin Range(last.appended)
    /\ \E p \in PUBLICATION : ~Eligible(p) /\ \E d \in DATASET : d.PUBLICATION_ID = p.ID

\* C6: a dois_required_check whose query execution fails returns normally and
\* leaves pubIDs as it was before the call, same elements in the same order.
C6_FailedScanLeavesAccumulator ==
    [][(last'.op = "dois_required_check" /\ last'.queryFailed)
        => (pubIDs' = pubIDs /\ last'.outcome.kind = "return")]_vars

\* C6 witness: a failed scan after an earlier scan filled the accumulator
C6_Witness == ScanFailed /\ Len(pubIDs) >= 2

----------------------------------------------------------------------------
(* Claims about the alias resolver *)

AliasCalled == last.op = "get_short_doi" /\ last.response.kind = "return"

\* the positions (1-based) of the first '<div class="para">10/' of a body and
\* of the first '</div>' after it
OpensAt(b, i) == i + 1 <= Len(b) /\ b[i] = DivPara /\ b[i + 1] = "10/"
FirstOpen(b, i) == OpensAt(b, i) /\ \A k \in 1..(i - 1) : ~OpensAt(b, k)
FirstEnd(b, i, j) == j > i /\ b[j] = DivEnd /\ \A k \in (i + 1)..(j - 1) : b[k] # DivEnd
HasPattern(b) == \E i, j \in DOMAIN b : FirstOpen(b, i) /\ FirstEnd(b, i, j)

\* s is t without the whitespace at its end
TrimmedRight(s, t) ==
    /\ Len(s) <= Len(t)
    /\ s = SubSeq(t, 1, Len(s))
    /\ \A k \in (Len(s) + 1)..Len(t) : t[k] = " "
    /\ (s # <<>> => s[Len(s)] # " ")

\* C8 as stated: on status 200 with '<div class="para">10/' followed later by
\* '</div>', get_short_doi returns the string between '<div class="para">' and
\* the first following '</div>'; on status 200 without the pattern, null; on
\* any other status, the pair (status code, body text).
C8_ReturnsStringBetween ==
    AliasCalled =>
        LET st == last.response.val.status_code
            b == last.response.val.text
        IN  /\ st = 200 /\ HasPattern(b) =>
                \E i, j \in DOMAIN b :
                    /\ FirstOpen(b, i) /\ FirstEnd(b, i, j)
                    /\ last.outcome = Return(PyStr(SubSeq(b, i + 1, j - 1)))
            /\ st = 200 /\ ~HasPattern(b) => last.outcome = Return(PyNone)
            /\ st # 200 => last.outcome = Return(PyTuple(<<st, b>>))

\* C8 amended: on status 200 with the pattern, get_short_doi returns the string
\* between '<div class="para">' and the first following '</div>' with the
\* whitespace at its end removed (it starts with '10/'); on status 200 without
\* the pattern, null; on any other status, the pair (status code, body text).
C8_ReturnsTrimmedStringBetween ==
    AliasCalled =>
        LET st == last.response.val.status_code
            b == last.response.val.text
        IN  /\ st = 200 /\ HasPattern(b) =>
                \E i, j \in DOMAIN b :
                    /\ FirstOpen(b, i) /\ FirstEnd(b, i, j)
                    /\ last.outcome.kind = "return"
                    /\ last.outcome.val.t = "str"
                    /\ TrimmedRight(last.outcome.val.v, SubSeq(b, i + 1, j - 1))
                    /\ Head(last.outcome.val.v) = "10/"
            /\ st = 200 /\ ~HasPattern(b) => last.outcome = Return(PyNone)
            /\ st # 200 => last.outcome = Return(PyTuple(<<st, b>>))

\* C8 witness: the alias of a 200 body whose div holds '10/x' and a space
C8_Witness ==
    /\ AliasCalled
    /\ last.response.val.status_code = 200
    /\ last.response.val.text = <<DivPara, "10/", "x", " ", DivEnd>>
    /\ last.outcome = Return(PyStr(<<"10/", "x">>))

----------------------------------------------------------------------------
(* Claims about the exporter *)

XmlCalled == last.op = "createXML"

\* the call met a failure: an identifier it cannot handle, or a query, parse
\* or I/O error
XmlFailed ==
    \/ last.pubID.t = "int"
    \/ last.pubID.t = "str" /\ last.env # "ok"

\* C7: createXML never propagates an error: on any failure it returns normally
\* and the call creates no DC<id>.xml file.
C7_CreateXMLAbsorbsFailures ==
    XmlCalled => /\ last.outcome.kind = "return"
                 /\ XmlFailed => last.created = {}

----------------------------------------------------------------------------
(* Claims about the orchestrator *)

DoiCalled == last.op = "createDataciteDOI"

AliasResolves(answer) ==
    /\ answer.kind = "return"
    /\ answer.val.status_code = 200
    /\ HasPattern(answer.val.text)

\* C1: when the registration service answers 201 and get_short_doi then
\* succeeds, createDataciteDOI executes exactly two update statements, the
\* Publication update bound to (registered doi, today, alias, record id) and
\* then the Dataset update for the record id, and returns the summary string.
C1_TwoUpdatesOnSuccess ==
    (DoiCalled /\ last.env.status_code = 201 /\ AliasResolves(last.env.alias)) =>
        /\ Len(last.executed) = 2
        /\ last.executed[1] =
              Statement("update_publication",
                        <<getDOIstring(last.env.myUUID), Today,
                          get_short_doi(last.env.alias).val.v, Format(last.pubID)>>)
        /\ last.executed[2].statement = "update_dataset"
        /\ last.executed[2].params[2] = Format(last.pubID)
        /\ last.outcome = Return(SummaryString)

\* C2: when the registration service answers with a status other than 201,
\* createDataciteDOI executes no update statement, does not raise, and returns
\* a string naming the record id and the status code.
C2_NoUpdateOnRejectedRegistration ==
    (DoiCalled /\ last.env.status_code # 201) =>
        /\ last.executed = <<>>
        /\ last.outcome.kind = "return"
        /\ last.outcome.val = FailureString(last.pubID, last.env.status_code)

\* C3: when the registration service answers 201 and get_short_doi throws,
\* createDataciteDOI returns a failure string instead of raising and executes
\* no update statement: the record stays as it was in the store.
C3_AliasErrorIsCaught ==
    (DoiCalled /\ last.env.status_code = 201 /\ last.env.alias.kind = "raise") =>
        /\ last.outcome.kind = "return"
        /\ last.outcome.val.t = "str"
        /\ last.executed = <<>>
        /\ last.before \subseteq PUBLICATION

RowOf(pub, id) == {r \in pub : r.ID = id}

Registered(log, id) ==
    \E k \in DOMAIN log :
        /\ log[k].method = "POST"
        /\ log[k].status_code = 201
        /\ Format(log[k].pubID) = Digits(id)

\* C4: whatever the sequence of scanner, exporter and orchestrator calls, a
\* step changes a Record's stored identifier, alias or issuance date only if
\* the registration service has answered 201 for that record, in this call or
\* an earlier one; nothing is written for a candidate whose registration failed.
C4_PersistedOnlyIfRegistered ==
    [][\A id \in RecordIds :
          RowOf(PUBLICATION', id) # RowOf(PUBLICATION, id) => Registered(http', id)]_vars

\* C4 witness: createDataciteDOI was called for an unissued Record, the
\* registration service answering 400, and the Record is still unissued
C4_Witness ==
    /\ DoiCalled
    /\ last.env.status_code = 400
    /\ last.before # {}
    /\ \A q \in last.before : q.doi = "NULL" /\ q \in PUBLICATION

\* C9: when DC<id>.xml does not exist, createDataciteDOI still issues the
\* registration POST, carrying the candidate identifier and a null payload.
C9_PostIssuedWithoutFile ==
    (DoiCalled /\ ~last.fileExisted) =>
        /\ last.http # <<>>
        /\ last.http[1] = PostRequest(last.pubID, getDOIstring(last.env.myUUID),
                                      PyNone, last.env.status_code)

\* C10: when the registration service answers 201 and the alias service a
\* status other than 200, createDataciteDOI takes get_short_doi's pair as the
\* alias and goes on to execute the Publication update statement.
C10_AliasPairAccepted ==
    (/\ DoiCalled
     /\ last.env.status_code = 201
     /\ last.env.alias.kind = "return"
     /\ last.env.alias.val.status_code # 200) =>
        \E k \in DOMAIN last.executed : last.executed[k].statement = "update_publication"

====
